---- MODULE Spec2Model ----
(***************************************************************************)
(* The design workflow of my_uc_analyzer: the LangGraph state machine of   *)
(* src/src/agents/graph.py (query -> design -> feedback -> design | END),  *)
(* the three agents' run methods and the LongTermMemory store they share.  *)
(*                                                                         *)
(* Strings are tuples of atoms (characters where the code inspects         *)
(* characters, larger pieces elsewhere), "" is <<>> and + is \o.  An       *)
(* Optional[str] field is None or Some(text).  Calls that leave the        *)
(* process (LLM chains, the embedding model, the vector store, the file    *)
(* system) are inputs of the actions: each either returns a value or       *)
(* raises an exception with a message.                                     *)
(***************************************************************************)
EXTENDS Integers, Sequences, FiniteSets, TLC

VARIABLES
    state,           \* the AgentState flowing through the graph
    pc,              \* the node the graph runs next: "query", "design", "feedback", "end"
    max_iterations,  \* create_workflow's max_iterations, closed over by query_node
    data,            \* LongTermMemory._data: use_case_id -> UseCaseLessons
    file,            \* the content of LongTermMemory.storage_path (None: no file)
    designCalls,     \* history: design_node invocations of this run
    criticCalls,     \* history: feedback_node invocations of this run
    lessonsCalls,    \* history: lessons_chain invocations of this run
    saveCalls,       \* history: LongTermMemory._save calls of this run
    stepFailed,      \* history: some step of this run returned an error
    lastEval,        \* history: the evaluation text the latest Critic invocation obtained
    allRevise,       \* history: no evaluation so far parsed as approved
    designRaised,    \* history: the message of the exception a Designer generation raised
    designed,        \* history: some Designer invocation of this run produced a design
    storage_path,    \* LongTermMemory.storage_path of the store instance in use
    otherFile,       \* the content of the lessons file the instance is not bound to
    lastOp,          \* history of a store session: the latest operation on the store
    appended,        \* history of a store session: per use case, the lessons added by
                     \* add_lesson calls that returned, since the latest clear
    attempted,       \* history of a store session: per use case, the lessons passed to
                     \* add_lesson, since the latest clear
    cleared,         \* history of a store session: a clear operation has completed
    data2,           \* _data of a second LongTermMemory instance bound to the same file
    saving           \* the _save another thread is in the middle of (None: no _save runs)

vars == <<state, pc, max_iterations, data, file, designCalls, criticCalls,
          lessonsCalls, saveCalls, stepFailed, lastEval, allRevise, designRaised,
          designed, storage_path, otherFile, lastOp, appended, attempted, cleared,
          data2, saving>>

\* what a workflow run reads and writes besides the store
runVars == <<state, pc, max_iterations, designCalls, criticCalls, lessonsCalls,
             saveCalls, stepFailed, lastEval, allRevise, designRaised, designed>>

\* where the store instance lives and the history of a store session
sessionVars == <<storage_path, otherFile, lastOp, appended, attempted, cleared,
                 data2, saving>>

\* a second store instance and a _save in progress
otherStoreVars == <<data2, saving>>

----------------------------------------------------------------------------
(* Bounds of the model.                                                    *)

\* the largest max_iterations a run is started with
MaxIter == 3

----------------------------------------------------------------------------
(* Python values.                                                          *)

None == <<>>
Some(v) == <<v>>
Val(o) == o[1]

\* bool(x) of an Optional[str]: None and "" are falsy
Truthy(o) == o # None /\ Val(o) # <<>>

\* the outcome of a call that leaves the process
Return(v) == [ok |-> TRUE, v |-> v]
Raise(msg) == [ok |-> FALSE, msg |-> msg]

\* t in s, for strings
Contains(s, t) ==
    \E i \in 0..(Len(s) - Len(t)) : \A j \in 1..Len(t) : s[i + j] = t[j]

LowerCase == <<"a","b","c","d","e","f","g","h","i","j","k","l","m",
               "n","o","p","q","r","s","t","u","v","w","x","y","z">>
UpperCase == <<"A","B","C","D","E","F","G","H","I","J","K","L","M",
               "N","O","P","Q","R","S","T","U","V","W","X","Y","Z">>

\* str.upper(), character by character
UpperTable ==
    [c \in {LowerCase[i] : i \in 1..Len(LowerCase)} |->
        UpperCase[CHOOSE i \in 1..Len(LowerCase) : LowerCase[i] = c]]
UpperChar(c) == IF c \in DOMAIN UpperTable THEN UpperTable[c] ELSE c
Upper(s) == [i \in 1..Len(s) |-> UpperChar(s[i])]

LowerTable ==
    [c \in {UpperCase[i] : i \in 1..Len(UpperCase)} |->
        LowerCase[CHOOSE i \in 1..Len(UpperCase) : UpperCase[i] = c]]
LowerChar(c) == IF c \in DOMAIN LowerTable THEN LowerTable[c] ELSE c
Lower(s) == [i \in 1..Len(s) |-> LowerChar(s[i])]

Whitespace == {" ", "\t", "\n"}

\* str.lstrip(chars) and str.rstrip(chars)
RECURSIVE LStrip(_, _)
LStrip(s, chars) ==
    IF s # <<>> /\ Head(s) \in chars THEN LStrip(Tail(s), chars) ELSE s
RECURSIVE RStrip(_, _)
RStrip(s, chars) ==
    IF s # <<>> /\ s[Len(s)] \in chars
    THEN RStrip(SubSeq(s, 1, Len(s) - 1), chars) ELSE s
\* str.strip()
Strip(s) == RStrip(LStrip(s, Whitespace), Whitespace)

\* "sep".join(parts)
RECURSIVE Join(_, _)
Join(parts, sep) ==
    IF parts = <<>> THEN <<>>
    ELSE IF Len(parts) = 1 THEN parts[1]
    ELSE parts[1] \o sep \o Join(Tail(parts), sep)

\* s.split(sep) for a one-character sep
RECURSIVE Split(_, _)
Split(s, sep) ==
    IF \E i \in 1..Len(s) : s[i] = sep
    THEN LET i == CHOOSE k \in 1..Len(s) :
                      s[k] = sep /\ \A j \in 1..(k - 1) : s[j] # sep
         IN  <<SubSeq(s, 1, i - 1)>> \o Split(SubSeq(s, i + 1, Len(s)), sep)
    ELSE <<s>>

\* str(x) of an Optional[str] inside an f-string
Str(o) == IF o = None THEN <<"None">> ELSE Val(o)

----------------------------------------------------------------------------
(* src/src/agents/memory.py                                                *)

EmptyMap == [k \in {} |-> k]

\* LongTermMemory.MEMORY_PATH, the default storage_path: BASE_DIR.parent /
\* "data" / "test_lessons.json", as path components under the repository root
MEMORY_PATH == <<"data", "test_lessons.json">>

\* DesignLesson(lesson=...); created_at is the wall clock and is left out
DesignLesson(lesson) == [lesson |-> lesson]

\* UseCaseLessons(use_case_id=..., use_case_name=...) with no lessons
UseCaseLessons(use_case_id, use_case_name) ==
    [use_case_id |-> use_case_id, use_case_name |-> use_case_name, lessons |-> <<>>]

\* get_lessons that hands out a fresh empty record on every call
get_lessons_fresh(d, use_case_id, use_case_name) ==
    [k \in DOMAIN d \cup {use_case_id} |->
        IF k = use_case_id THEN UseCaseLessons(use_case_id, use_case_name) ELSE d[k]]

\* LongTermMemory.get_lessons: the map after the call (the entry is created
\* when the id is new); the record returned is get_lessons(...)[use_case_id]
get_lessons(d, use_case_id, use_case_name) ==
    IF use_case_id \notin DOMAIN d
    THEN d @@ (use_case_id :> UseCaseLessons(use_case_id, use_case_name))
    ELSE d

\* add_lesson with every entry sharing one lessons list
append_lesson_shared(d, use_case_id, use_case_name, lesson) ==
    LET d1 == get_lessons(d, use_case_id, use_case_name)
    IN  [k \in DOMAIN d1 |->
            [d1[k] EXCEPT !.lessons = Append(@, DesignLesson(lesson))]]

\* add_lesson that skips a text the entry already holds
append_lesson_dedup(d, use_case_id, use_case_name, lesson) ==
    LET d1 == get_lessons(d, use_case_id, use_case_name)
    IN  IF \E i \in 1..Len(d1[use_case_id].lessons) :
               d1[use_case_id].lessons[i].lesson = lesson
        THEN d1
        ELSE [d1 EXCEPT ![use_case_id].lessons = Append(@, DesignLesson(lesson))]

\* UseCaseLessons.add_lesson on the entry get_lessons returns
append_lesson(d, use_case_id, use_case_name, lesson) ==
    LET d1 == get_lessons(d, use_case_id, use_case_name)
    IN  [d1 EXCEPT ![use_case_id].lessons = Append(@, DesignLesson(lesson))]

\* _save that writes only the use cases that have lessons
raw_data_nonempty(d) ==
    [k \in {id \in DOMAIN d : d[id].lessons # <<>>} |->
        [use_case_id |-> d[k].use_case_id,
         use_case_name |-> d[k].use_case_name,
         lessons |-> [i \in 1..Len(d[k].lessons) |->
                         [lesson |-> d[k].lessons[i].lesson]]]]

\* LongTermMemory._save: the JSON object written to storage_path
raw_data(d) ==
    [k \in DOMAIN d |->
        [use_case_id |-> d[k].use_case_id,
         use_case_name |-> d[k].use_case_name,
         lessons |-> [i \in 1..Len(d[k].lessons) |->
                         [lesson |-> d[k].lessons[i].lesson]]]]

\* UseCaseLessons(**lesson_data) validates: use_case_id and use_case_name
\* are required, lessons has a default
valid_record(r) == {"use_case_id", "use_case_name"} \subseteq DOMAIN r

\* the lessons of a record of the file: Field(default_factory=list)
record_lessons(r) == IF "lessons" \in DOMAIN r THEN r.lessons ELSE <<>>

\* the map _load builds from the records of file content c
loaded_records(c, keys) ==
    [k \in keys |->
        [use_case_id |-> c[k].use_case_id,
         use_case_name |-> c[k].use_case_name,
         lessons |-> [i \in 1..Len(record_lessons(c[k])) |->
                         DesignLesson(record_lessons(c[k])[i].lesson)]]]

\* a _load whose except branch keeps the records loaded before the failure
load_partial(f) ==
    IF f = None THEN EmptyMap
    ELSE loaded_records(Val(f), {k \in DOMAIN Val(f) : valid_record(Val(f)[k])})

\* LongTermMemory._load: _data after opening a store on file content f.
\* A failure at any record (and a failure of json.load, which is a failure
\* before the first record) reaches the except branch: _data = {}
load(f) ==
    IF f = None THEN EmptyMap
    ELSE IF \E k \in DOMAIN Val(f) : ~valid_record(Val(f)[k]) THEN EmptyMap
    ELSE loaded_records(Val(f), DOMAIN Val(f))

\* LongTermMemory.add_lesson: append, then _save; saveRaises: _save raises
\* before it writes (mkdir or open failed)
add_lesson(d, f, use_case_id, use_case_name, lesson, saveRaises) ==
    LET d1 == append_lesson(d, use_case_id, use_case_name, lesson)
    IN  [data |-> d1,
         file |-> IF saveRaises THEN f ELSE Some(raw_data(d1)),
         raised |-> saveRaises]

----------------------------------------------------------------------------
(* src/src/agents/state.py, src/src/agents/query_agent.py                  *)

\* run_design_workflow's initial_state
initial_state(user_query, max_iter) ==
    [user_query |-> user_query,
     use_case_id |-> None,
     use_case_name |-> None,
     description_summary |-> None,
     requirement_list |-> None,
     system_design |-> None,
     research_search |-> None,
     feedback |-> None,
     is_approved |-> FALSE,
     iteration |-> 0,
     max_iterations |-> max_iter,
     final_response |-> None,
     error |-> None]

\* QueryAnalysisAgent.use_case_names
use_case_names ==
    (<<"5.1.1">> :> <<"AI Agents to Enable Smart Life">>) @@
    (<<"5.1.2">> :> <<"Network-Assisted Collaborative Robots">>) @@
    (<<"5.1.3">> :> <<"AI Phone">>) @@
    (<<"5.2.1">> :> <<"AI Agent-based Customized Network for Smart City Traffic Monitoring">>) @@
    (<<"5.2.2">> :> <<"AI Agents-Based Customized Network for Smart Construction Sites">>) @@
    (<<"5.2.3">> :> <<"AI Agent Ensuring Game Acceleration Experience">>) @@
    (<<"5.2.4">> :> <<"AI Agent-Assisted Collaborative Energy Distribution in Power Enterprises">>) @@
    (<<"5.3.1">> :> <<"AI Agent-Based Autonomous Network Management">>) @@
    (<<"5.3.2">> :> <<"AI Agent-Based Disaster Handling Network Management">>) @@
    (<<"5.3.3">> :> <<"AI Agent-Based Time-Sensitive Network Management">>) @@
    (<<"5.3.4">> :> <<"AI Agent-Driven Core Network Signalling Optimization">>) @@
    (<<"5.3.5">> :> <<"AI Agent-Based Core Networks to Enhance User Experience">>)

\* QueryAnalysisAgent.run reporting a retrieval gap without the resolved id
QueryAnalysisAgent_run_gap_clears_id(st, identified, description_chunks, requirement_chunks, summary) ==
    LET failed(e) ==
            [st EXCEPT !.error = Some(<<"Query analysis failed: ">> \o e),
                       !.use_case_id = None,
                       !.use_case_name = None,
                       !.description_summary = None,
                       !.requirement_list = None]
    IN
    IF ~identified.ok THEN failed(identified.msg)
    ELSE IF identified.v = None \/ Val(identified.v) \notin DOMAIN use_case_names
    THEN [st EXCEPT
            !.error = Some(<<"Could not identify a valid use case from query. Got: ">>
                           \o Str(identified.v)),
            !.use_case_id = None,
            !.use_case_name = None,
            !.description_summary = None]
    ELSE
    LET use_case_id == Val(identified.v)
        use_case_name == use_case_names[use_case_id]
    IN
    IF ~description_chunks.ok THEN failed(description_chunks.msg)
    ELSE IF description_chunks.v = <<>>
    THEN [st EXCEPT
            !.error = Some(<<"No description found for use case ">> \o use_case_id),
            !.use_case_id = None,
            !.use_case_name = None,
            !.description_summary = None]
    ELSE IF ~requirement_chunks.ok THEN failed(requirement_chunks.msg)
    ELSE IF requirement_chunks.v = <<>>
    THEN [st EXCEPT
            !.error = Some(<<"No requirement found for use case ">> \o use_case_id),
            !.use_case_id = None,
            !.use_case_name = None,
            !.description_summary = None]
    ELSE IF ~summary.ok THEN failed(summary.msg)
    ELSE [st EXCEPT
            !.use_case_id = Some(use_case_id),
            !.use_case_name = Some(use_case_name),
            !.description_summary = Some(summary.v),
            !.requirement_list = Some(Join(requirement_chunks.v, <<"\n\n">>)),
            !.error = None]

\* QueryAnalysisAgent.run.  identified: what identify_use_case_id does (an
\* Optional id, or an exception); description_chunks, requirement_chunks:
\* what the two vector_store.search calls do (the chunks' contents);
\* summary: what summarize_chain.invoke does.
QueryAnalysisAgent_run(st, identified, description_chunks, requirement_chunks, summary) ==
    LET failed(e) ==
            [st EXCEPT !.error = Some(<<"Query analysis failed: ">> \o e),
                       !.use_case_id = None,
                       !.use_case_name = None,
                       !.description_summary = None,
                       !.requirement_list = None]
    IN
    IF ~identified.ok THEN failed(identified.msg)
    ELSE IF identified.v = None \/ Val(identified.v) \notin DOMAIN use_case_names
    THEN [st EXCEPT
            !.error = Some(<<"Could not identify a valid use case from query. Got: ">>
                           \o Str(identified.v)),
            !.use_case_id = None,
            !.use_case_name = None,
            !.description_summary = None]
    ELSE
    LET use_case_id == Val(identified.v)
        use_case_name == use_case_names[use_case_id]
    IN
    IF ~description_chunks.ok THEN failed(description_chunks.msg)
    ELSE IF description_chunks.v = <<>>
    THEN [st EXCEPT
            !.error = Some(<<"No description found for use case ">> \o use_case_id),
            !.use_case_id = Some(use_case_id),
            !.use_case_name = Some(use_case_name),
            !.description_summary = None]
    ELSE IF ~requirement_chunks.ok THEN failed(requirement_chunks.msg)
    ELSE IF requirement_chunks.v = <<>>
    THEN [st EXCEPT
            !.error = Some(<<"No requirement found for use case ">> \o use_case_id),
            !.use_case_id = Some(use_case_id),
            !.use_case_name = Some(use_case_name),
            !.description_summary = None]
    ELSE IF ~summary.ok THEN failed(summary.msg)
    ELSE [st EXCEPT
            !.use_case_id = Some(use_case_id),
            !.use_case_name = Some(use_case_name),
            !.description_summary = Some(summary.v),
            !.requirement_list = Some(Join(requirement_chunks.v, <<"\n\n">>)),
            !.error = None]

----------------------------------------------------------------------------
(* src/src/agents/design_agent_react.py                                    *)

\* A message of the ReAct agent's result: type is "system", "human", "ai" or
\* "tool"; only "ai" messages have the tool_calls attribute (a list of
\* [name, query, id], query being args.get('query', '')), only "tool"
\* messages have tool_call_id.
Message(type, content, tool_calls, tool_call_id) ==
    [type |-> type, content |-> content, tool_calls |-> tool_calls,
     tool_call_id |-> tool_call_id]

\* the inner loop over msg.tool_calls
RECURSIVE collect_tool_calls(_, _)
collect_tool_calls(tool_calls, acc) ==
    IF tool_calls = <<>> THEN acc
    ELSE LET tool_call == Head(tool_calls)
             acc1 == IF tool_call.name = "research" /\ tool_call.query # <<>>
                     THEN [acc EXCEPT
                             !.research_queries = Append(@, tool_call.query),
                             !.tool_call_ids = @ \cup {tool_call.id}]
                     ELSE acc
         IN  collect_tool_calls(Tail(tool_calls), acc1)

\* the loop over final_messages
RECURSIVE scan_messages(_, _)
scan_messages(msgs, acc) ==
    IF msgs = <<>> THEN acc
    ELSE LET msg == Head(msgs)
             acc1 == IF msg.type = "ai" /\ msg.tool_calls # <<>>
                     THEN collect_tool_calls(msg.tool_calls, acc)
                     ELSE acc
             acc2 == IF msg.type = "tool" /\ msg.tool_call_id \in acc1.tool_call_ids
                     THEN [acc1 EXCEPT !.research_summaries = @ \o msg.content]
                     ELSE acc1
             acc3 == IF msg.content # <<>> /\ msg.type = "ai" /\ msg.tool_calls = <<>>
                     THEN [acc2 EXCEPT !.design = msg.content]
                     ELSE acc2
         IN  scan_messages(Tail(msgs), acc3)

\* "If design is still empty, get the last AI message"
RECURSIVE last_ai_content(_)
last_ai_content(msgs) ==
    IF msgs = <<>> THEN <<>>
    ELSE LET msg == msgs[Len(msgs)]
         IN  IF msg.content # <<>> /\ msg.type = "ai" THEN msg.content
             ELSE last_ai_content(SubSeq(msgs, 1, Len(msgs) - 1))

\* the "Research Conducted" block put before the design
RECURSIVE query_lines(_)
query_lines(research_queries) ==
    IF research_queries = <<>> THEN <<>>
    ELSE <<"- \"">> \o Head(research_queries) \o <<"\"\n">>
         \o query_lines(Tail(research_queries))
research_call(research_queries) ==
    <<"## Research Conducted\nThe agent researched the following topics:\n">>
    \o query_lines(research_queries) \o <<"\n---\n\n">>

\* feedback = state.get("feedback") or "No feedback yet - ...": the text the
\* Designer puts under "Feedback from Previous Iteration"
designer_feedback(st) ==
    IF Truthy(st.feedback) THEN Val(st.feedback)
    ELSE <<"No feedback yet - this is the first design iteration.">>

\* DesignAgentReAct.run on state st with the store's map d.  agent_result:
\* what self.agent.invoke does (the result's messages, or an exception).
\* Gives the returned state and the store's map after the call.
DesignAgentReAct_run(st, d, agent_result) ==
    IF ~Truthy(st.use_case_id) \/ ~Truthy(st.description_summary)
    THEN [state |-> [st EXCEPT
                        !.error = Some(<<"Design agent requires use_case_id and description_summary">>),
                        !.system_design = None],
          data |-> d]
    ELSE IF st.use_case_name = None /\ Val(st.use_case_id) \notin DOMAIN d
    THEN \* UseCaseLessons(use_case_name=None) fails pydantic's validation
         [state |-> [st EXCEPT
                        !.error = Some(<<"Design generation failed: ">>
                                       \o <<"1 validation error for UseCaseLessons">>),
                        !.system_design = None],
          data |-> d]
    ELSE
    LET d1 == get_lessons(d, Val(st.use_case_id), Str(st.use_case_name))
    IN
    IF ~agent_result.ok
    THEN [state |-> [st EXCEPT
                        !.error = Some(<<"Design generation failed: ">> \o agent_result.msg),
                        !.system_design = None],
          data |-> d1]
    ELSE
    LET final_messages == agent_result.v
        acc == scan_messages(final_messages,
                   [design |-> <<>>, research_queries |-> <<>>,
                    research_summaries |-> <<>>, tool_call_ids |-> {}])
        design == IF acc.design = <<>> THEN last_ai_content(final_messages)
                  ELSE acc.design
        design1 == IF acc.research_queries # <<>>
                   THEN research_call(acc.research_queries) \o design
                   ELSE design
    IN  [state |-> [st EXCEPT
                        !.requirement_list = st.requirement_list,
                        !.research_search = Some(acc.research_summaries),
                        !.system_design = Some(design1),
                        !.error = None],
         data |-> d1]

----------------------------------------------------------------------------
(* src/src/agents/feedback_agent.py                                        *)

APPROVED == <<"A","P","P","R","O","V","E","D">>
NEEDS_REVISION == <<"N","E","E","D","S","_","R","E","V","I","S","I","O","N">>

\* parse_verdict without .upper()
parse_verdict_case_sensitive(evaluation) ==
    Contains(evaluation, APPROVED) /\ ~Contains(evaluation, NEEDS_REVISION)

\* Step 2: Parse verdict
parse_verdict(evaluation) ==
    Contains(Upper(evaluation), APPROVED) /\ ~Contains(Upper(evaluation), NEEDS_REVISION)

\* is_final_iteration comparing the count before this evaluation
is_final_iteration_late(iteration, max_iter) ==
    iteration >= max_iter

\* "Check if we've hit max iterations"
is_final_iteration(iteration, max_iter) ==
    (iteration + 1) >= max_iter

\* the characters lesson.lstrip("0123456789.-) ") removes
NumberingChars == {"0","1","2","3","4","5","6","7","8","9",".","-",")"," "}

\* lessons = [l.strip() for l in lessons_text.strip().split("\n") if l.strip()]
lesson_lines(lessons_text) ==
    LET lines == Split(Strip(lessons_text), "\n")
        kept == SelectSeq(lines, LAMBDA l : Strip(l) # <<>>)
    IN  [i \in 1..Len(kept) |-> Strip(kept[i])]

\* a clean-up that removes digits and dots only
clean_lesson_digits_only(lesson) ==
    Strip(LStrip(lesson, {"0","1","2","3","4","5","6","7","8","9","."}))

\* clean_lesson = lesson.lstrip("0123456789.-) ").strip()
clean_lesson(lesson) == Strip(LStrip(lesson, NumberingChars))

\* the message of the exception a failing _save raises
SaveError == <<"[Errno 13] Permission denied">>

\* the loop "for lesson in lessons": the store after it, the number of _save
\* calls made, and whether an add_lesson raised.  saves: _save calls made
\* before; fails_at: the number of the _save call that raises (0: none does)
RECURSIVE save_lessons(_, _, _, _, _, _, _)
save_lessons(d, f, use_case_id, use_case_name, lessons, saves, fails_at) ==
    IF lessons = <<>>
    THEN [data |-> d, file |-> f, saves |-> saves, raised |-> FALSE]
    ELSE LET clean == clean_lesson(Head(lessons))
         IN  IF clean = <<>>
             THEN save_lessons(d, f, use_case_id, use_case_name, Tail(lessons),
                               saves, fails_at)
             ELSE LET r == add_lesson(d, f, use_case_id, use_case_name, clean,
                                      saves + 1 = fails_at)
                  IN  IF r.raised
                      THEN [data |-> r.data, file |-> r.file,
                            saves |-> saves + 1, raised |-> TRUE]
                      ELSE save_lessons(r.data, r.file, use_case_id, use_case_name,
                                        Tail(lessons), saves + 1, fails_at)

\* "Create final response" (the status lines without their emoji)
final_response(st, evaluation, is_approved, lessons_text) ==
    LET final_status ==
            IF is_approved THEN <<"Design APPROVED">>
            ELSE <<"Design finalized after ", ToString(st.max_iterations),
                   " iterations (max reached)">>
    IN  final_status
        \o <<"\n\n## Use Case\n">> \o Str(st.use_case_id) \o <<": ">> \o Str(st.use_case_name)
        \o <<"\n\n## Final System Design\n">> \o Val(st.system_design)
        \o <<"\n\n## Evaluation Summary\n">> \o evaluation
        \o <<"\n\n## Lessons Learned (saved for future designs)\n">> \o lessons_text
        \o <<"\n">>

\* finalized_state returning the parsed verdict as is_approved
finalized_state_verdict(st, evaluation, is_approved, lessons_text) ==
    [st EXCEPT !.feedback = Some(evaluation),
               !.is_approved = is_approved,
               !.iteration = st.iteration + 1,
               !.final_response = Some(final_response(st, evaluation, is_approved, lessons_text)),
               !.error = None]

\* the state returned when the Critic finalizes
finalized_state(st, evaluation, is_approved, lessons_text) ==
    [st EXCEPT !.feedback = Some(evaluation),
               !.is_approved = TRUE,
               !.iteration = st.iteration + 1,
               !.final_response = Some(final_response(st, evaluation, is_approved, lessons_text)),
               !.error = None]

\* a revision return that does not record the evaluation as feedback
revision_state_keeps_feedback(st, evaluation) ==
    [st EXCEPT !.is_approved = FALSE,
               !.iteration = st.iteration + 1,
               !.final_response = None,
               !.error = None]

\* "Needs revision - return feedback for Design Agent"
revision_state(st, evaluation) ==
    [st EXCEPT !.feedback = Some(evaluation),
               !.is_approved = FALSE,
               !.iteration = st.iteration + 1,
               !.final_response = None,
               !.error = None]

\* an except branch that clears requirement_list, as the Classifier's does
evaluation_failed_resets(st, e) ==
    [st EXCEPT !.error = Some(<<"Feedback evaluation failed: ">> \o e),
               !.is_approved = FALSE,
               !.requirement_list = None]

\* the except branch of FeedbackAgent.run
evaluation_failed(st, e) ==
    [st EXCEPT !.error = Some(<<"Feedback evaluation failed: ">> \o e),
               !.is_approved = FALSE]

\* "Check for required inputs"
feedback_inputs_missing(st) ==
    ~Truthy(st.system_design) \/ ~Truthy(st.requirement_list)

\* FeedbackAgent.run on state st with the store (map d, file content f).
\* evaluation, lessons_text: what evaluation_chain.invoke and
\* lessons_chain.invoke do; fails_at: which _save call raises (0: none).
\* Gives the returned state, the store after the call, the number of _save
\* calls made and whether lessons_chain was invoked.
FeedbackAgent_run(st, d, f, evaluation, lessons_text, fails_at) ==
    LET same(s) == [state |-> s, data |-> d, file |-> f, saves |-> 0, extracted |-> FALSE]
    IN
    IF feedback_inputs_missing(st)
    THEN same([st EXCEPT
                 !.error = Some(<<"Feedback agent requires system_design and requirement_list">>),
                 !.is_approved = FALSE])
    ELSE IF ~evaluation.ok THEN same(evaluation_failed(st, evaluation.msg))
    ELSE
    LET is_approved == parse_verdict(evaluation.v)
    IN
    IF is_approved \/ is_final_iteration(st.iteration, st.max_iterations)
    THEN IF ~lessons_text.ok
         THEN [same(evaluation_failed(st, lessons_text.msg)) EXCEPT !.extracted = TRUE]
         ELSE LET r == save_lessons(d, f, Val(st.use_case_id), Str(st.use_case_name),
                                    lesson_lines(lessons_text.v), 0, fails_at)
              IN  [state |-> IF r.raised THEN evaluation_failed(st, SaveError)
                             ELSE finalized_state(st, evaluation.v, is_approved, lessons_text.v),
                   data |-> r.data, file |-> r.file, saves |-> r.saves,
                   extracted |-> TRUE]
    ELSE same(revision_state(st, evaluation.v))

----------------------------------------------------------------------------
(* src/src/agents/graph.py                                                 *)

\* route_after_query without its error check
route_after_query_no_error_check(st) ==
    IF ~Truthy(st.use_case_id) THEN "end" ELSE "design"

\* route_after_query
route_after_query(st) ==
    IF Truthy(st.error) THEN "end"
    ELSE IF ~Truthy(st.use_case_id) THEN "end"
    ELSE "design"

\* route_after_feedback that never loops back
route_after_feedback_always_ends(st) == "end"

\* route_after_feedback deciding on the iteration count alone
route_after_feedback_by_count(st) ==
    IF Truthy(st.error) THEN "end"
    ELSE IF st.iteration >= st.max_iterations THEN "end" ELSE "design"

\* route_after_feedback
route_after_feedback(st) ==
    IF Truthy(st.error) THEN "end"
    ELSE IF st.is_approved THEN "end"
    ELSE IF Truthy(st.final_response) THEN "end" ELSE "design"

----------------------------------------------------------------------------
(* The inputs the actions draw from.                                       *)

\* the messages of the exceptions the external calls raise
Messages == {<<"Connection timed out">>, <<"Rate limit exceeded">>}

Outcomes(values) == {Raise(m) : m \in Messages} \cup {Return(v) : v \in values}

UserQueries == {<<"Design a system for the smart life use case">>}

\* identify_use_case_id gives a key of use_case_names, or None when no
\* similarity score exceeds -1.0
IdentifiedIds == {None, Some(<<"5.1.1">>), Some(<<"5.2.1">>)}

DescriptionChunks == {<<>>, << <<"description chunk">> >>}
RequirementChunks == {<<>>, << <<"[PR 1]">>, <<"[PR 2]">> >>}
Summaries == {<<>>, <<"summary">>}

SystemMessage == Message("system", <<"DESIGN_SYSTEM_PROMPT">>, <<>>, "")
HumanMessage == Message("human", <<"user_message">>, <<>>, "")
ToolCall(name, query, id) == [name |-> name, query |-> query, id |-> id]

\* results of the ReAct agent: a design without research; one research call
\* and a design; tool calls that are not recorded (no query, another tool)
\* and an empty last message; no AI message at all
AgentResults ==
    { <<SystemMessage, HumanMessage,
        Message("ai", <<"design A">>, <<>>, "")>>,
      <<SystemMessage, HumanMessage,
        Message("ai", <<>>, <<ToolCall("research", <<"agent patterns">>, "call_1")>>, ""),
        Message("tool", <<"summary 1">>, <<>>, "call_1"),
        Message("ai", <<"design B">>, <<>>, "")>>,
      <<SystemMessage, HumanMessage,
        Message("ai", <<"thinking">>,
                <<ToolCall("research", <<>>, "call_1"),
                  ToolCall("lookup", <<"x">>, "call_2")>>, ""),
        Message("tool", <<"summary 2">>, <<>>, "call_1"),
        Message("ai", <<>>, <<>>, "")>>,
      <<SystemMessage, HumanMessage>> }

\* evaluation texts: "", "APPROVED", "Approved", "NOT APPROVED",
\* "needs_revision", "APPROVED needs_revision", "NEEDS_REVISION: not approved",
\* "APPROVE"
EvaluationTexts ==
    { <<>>,
      APPROVED,
      <<"A","p","p","r","o","v","e","d">>,
      <<"N","O","T"," ">> \o APPROVED,
      Lower(NEEDS_REVISION),
      APPROVED \o <<" ">> \o Lower(NEEDS_REVISION),
      NEEDS_REVISION \o <<":"," ","n","o","t"," ">> \o Lower(APPROVED),
      <<"A","P","P","R","O","V","E">> }

\* lesson texts: "1. A\n\n- B", "3) \n 2.\tA ", ""
LessonsTexts ==
    { <<"1", ".", " ", "A", "\n", "\n", "-", " ", "B">>,
      <<"3", ")", " ", "\n", " ", "2", ".", "\t", "A", " ">>,
      <<>> }

\* the _save call that raises, counted within one Critic invocation (0: none)
MaxFailsAt == 2
FailsAt == 0..MaxFailsAt

\* what storage_path holds when the store is opened
InitialFiles ==
    { None,
      Some(raw_data(append_lesson(EmptyMap, <<"5.1.1">>, use_case_names[<<"5.1.1">>],
                                  <<"O","l","d">>))) }

\* the max_iterations run_design_workflow is called with: it takes any int
MaxIterations == 0..MaxIter
\* the max_iterations the API passes: DesignRequest.max_iterations has ge=1
ApiMaxIterations == 1..MaxIter

----------------------------------------------------------------------------
(* run_design_workflow: one run of the compiled graph.  Every node returns  *)
(* the whole state, so the final_state run_design_workflow returns is the  *)
(* state when the graph is at END.                                         *)

\* the lesson texts the store d holds for a use case, in order
lesson_texts(d, use_case_id) ==
    IF use_case_id \in DOMAIN d
    THEN [i \in 1..Len(d[use_case_id].lessons) |-> d[use_case_id].lessons[i].lesson]
    ELSE <<>>

\* memory = LongTermMemory() of initialize_system and initialize_resources,
\* when MEMORY_PATH holds f and ./data/lessons.json does not exist
OpenDefault(f) ==
    /\ storage_path = MEMORY_PATH
    /\ file = f
    /\ otherFile = None
    /\ data = load(f)
    /\ lastOp = [op |-> "open", id |-> <<>>, raised |-> FALSE]
    /\ appended = [id \in DOMAIN use_case_names |-> lesson_texts(load(f), id)]
    /\ attempted = [id \in DOMAIN use_case_names |-> lesson_texts(load(f), id)]
    /\ cleared = FALSE

\* no second instance holds anything and no _save is in progress
NoOtherStore ==
    /\ data2 = EmptyMap
    /\ saving = None

InitWith(budgets) ==
    /\ \E q \in UserQueries, n \in budgets :
          /\ max_iterations = n
          /\ state = initial_state(q, n)
    /\ pc = "query"
    /\ \E f \in InitialFiles : OpenDefault(f)
    /\ NoOtherStore
    /\ designCalls = 0
    /\ criticCalls = 0
    /\ lessonsCalls = 0
    /\ saveCalls = 0
    /\ stepFailed = FALSE
    /\ lastEval = None
    /\ allRevise = TRUE
    /\ designRaised = None
    /\ designed = FALSE

Init == InitWith(MaxIterations)

\* a run started by run_design_task for a validated DesignRequest
ApiInit == InitWith(ApiMaxIterations)

\* query_node, then the conditional edge route_after_query
query_node ==
    /\ pc = "query"
    /\ \E identified \in Outcomes(IdentifiedIds),
          description_chunks \in Outcomes(DescriptionChunks),
          requirement_chunks \in Outcomes(RequirementChunks),
          summary \in Outcomes(Summaries) :
          LET result == [QueryAnalysisAgent_run(state, identified, description_chunks,
                                                requirement_chunks, summary)
                            EXCEPT !.max_iterations = max_iterations]
          IN  /\ state' = result
              /\ pc' = route_after_query(result)
              /\ stepFailed' = (stepFailed \/ Truthy(result.error))
    /\ UNCHANGED <<max_iterations, data, file, designCalls, criticCalls, lessonsCalls,
                   saveCalls, lastEval, allRevise, designRaised, designed>>
    /\ UNCHANGED sessionVars

\* design_node, then the edge design -> feedback
design_node ==
    /\ pc = "design"
    /\ \E agent_result \in Outcomes(AgentResults) :
          LET r == DesignAgentReAct_run(state, data, agent_result)
          IN  /\ state' = r.state
              /\ data' = r.data
              /\ stepFailed' = (stepFailed \/ Truthy(r.state.error))
              /\ designed' = (designed \/ r.state.system_design # None)
              /\ designRaised' =
                    IF /\ ~agent_result.ok
                       /\ r.state.error = Some(<<"Design generation failed: ">> \o agent_result.msg)
                    THEN Some(agent_result.msg)
                    ELSE designRaised
    /\ pc' = "feedback"
    /\ designCalls' = designCalls + 1
    /\ UNCHANGED <<max_iterations, file, criticCalls, lessonsCalls, saveCalls,
                   lastEval, allRevise>>
    /\ UNCHANGED sessionVars

\* feedback_node, then the conditional edge route_after_feedback
feedback_node ==
    /\ pc = "feedback"
    /\ \E evaluation \in Outcomes(EvaluationTexts),
          lessons_text \in Outcomes(LessonsTexts),
          fails_at \in FailsAt :
          LET r == FeedbackAgent_run(state, data, file, evaluation, lessons_text, fails_at)
              evaluated == ~feedback_inputs_missing(state) /\ evaluation.ok
          IN  /\ state' = r.state
              /\ data' = r.data
              /\ file' = r.file
              /\ pc' = route_after_feedback(r.state)
              /\ saveCalls' = saveCalls + r.saves
              /\ lessonsCalls' = lessonsCalls + (IF r.extracted THEN 1 ELSE 0)
              /\ stepFailed' = (stepFailed \/ Truthy(r.state.error))
              /\ lastEval' = IF evaluated THEN Some(evaluation.v) ELSE None
              /\ allRevise' = (allRevise /\ (evaluated => ~parse_verdict(evaluation.v)))
    /\ criticCalls' = criticCalls + 1
    /\ UNCHANGED <<max_iterations, designCalls, designRaised, designed>>
    /\ UNCHANGED sessionVars

Next == query_node \/ design_node \/ feedback_node

Spec == Init /\ [][Next]_vars

ApiSpec == ApiInit /\ [][Next]_vars

\* every node returns (each external call returns or raises), so the graph
\* keeps stepping until it reaches END
FairSpec == Spec /\ WF_vars(Next)

TypeOK ==
    /\ pc \in {"query", "design", "feedback", "end", "idle"}
    /\ state.iteration \in Int
    /\ state.is_approved \in BOOLEAN

----------------------------------------------------------------------------
(* A session of the store: the calls the agents, the CLI loop and the API  *)
(* routes make on the LongTermMemory instance bound to `memory`, with no   *)
(* run in progress.  The process runs with the repository root as its      *)
(* working directory, so ./data/test_lessons.json is MEMORY_PATH.          *)

\* the use cases and the lesson texts of a session
StoreIds == {<<"5.1.1">>, <<"5.2.1">>}
StoreLessons == {<<"A">>, <<"B">>}

\* lessons a store holds, and add_lesson calls between two clears, at most
MaxLessons == 3

\* Path("./data/lessons.json") of the CLI's clear command
CliLessonsPath == <<"data", "lessons.json">>

\* Path("./data/test_lessons.json") of the API's clear_all_lessons
ApiLessonsPath == <<"data", "test_lessons.json">>

\* the lessons files: path -> content
Disk ==
    IF storage_path = MEMORY_PATH
    THEN (MEMORY_PATH :> file) @@ (CliLessonsPath :> otherFile)
    ELSE (CliLessonsPath :> file) @@ (MEMORY_PATH :> otherFile)

\* the number of lessons the store d holds
lesson_count(d) ==
    LET RECURSIVE count(_)
        count(ids) ==
            IF ids = {} THEN 0
            ELSE LET id == CHOOSE k \in ids : TRUE
                 IN  Len(d[id].lessons) + count(ids \ {id})
    IN  count(DOMAIN d)

\* the number of add_lesson calls since the latest clear
attempt_count ==
    LET RECURSIVE count(_)
        count(ids) ==
            IF ids = {} THEN 0
            ELSE LET id == CHOOSE k \in ids : TRUE
                 IN  Len(attempted[id]) + count(ids \ {id})
    IN  count(DOMAIN attempted)

\* the latest operation: its name, the use case it was called for and
\* whether it raised
Op(op, use_case_id, raised) == [op |-> op, id |-> use_case_id, raised |-> raised]

NoLessons == [id \in DOMAIN use_case_names |-> <<>>]

\* memory = LongTermMemory(path), on the files `disk`
Bind(path, disk) ==
    /\ storage_path' = path
    /\ file' = disk[path]
    /\ otherFile' = disk[IF path = MEMORY_PATH THEN CliLessonsPath ELSE MEMORY_PATH]
    /\ data' = load(disk[path])

\* lessons_path.unlink() when lessons_path.exists()
unlink(disk, path) == [disk EXCEPT ![path] = None]

\* no workflow run is in progress
Idle ==
    /\ pc = "idle"
    /\ max_iterations = 0
    /\ state = initial_state(<<>>, 0)
    /\ designCalls = 0
    /\ criticCalls = 0
    /\ lessonsCalls = 0
    /\ saveCalls = 0
    /\ stepFailed = FALSE
    /\ lastEval = None
    /\ allRevise = TRUE
    /\ designRaised = None
    /\ designed = FALSE

SessionInit ==
    /\ Idle
    /\ \E f \in InitialFiles : OpenDefault(f)
    /\ NoOtherStore

\* memory.get_lessons(use_case_id, use_case_name): the Designer's read and
\* the reads of the lessons routes
session_get_lessons ==
    /\ \E id \in StoreIds :
          /\ data' = get_lessons(data, id, use_case_names[id])
          /\ lastOp' = Op("get_lessons", id, FALSE)
    /\ UNCHANGED <<file, storage_path, otherFile, appended, attempted, cleared>>
    /\ UNCHANGED <<runVars, otherStoreVars>>

\* memory.add_lesson(use_case_id, use_case_name, lesson): the Critic's write
session_add_lesson ==
    /\ lesson_count(data) < MaxLessons
    /\ attempt_count < MaxLessons
    /\ \E id \in StoreIds, lesson \in StoreLessons, saveRaises \in BOOLEAN :
          LET r == add_lesson(data, file, id, use_case_names[id], lesson, saveRaises)
          IN  /\ data' = r.data
              /\ file' = r.file
              /\ lastOp' = Op("add_lesson", id, r.raised)
              /\ attempted' = [attempted EXCEPT ![id] = Append(@, lesson)]
              /\ appended' = IF r.raised THEN appended
                             ELSE [appended EXCEPT ![id] = Append(@, lesson)]
    /\ UNCHANGED <<storage_path, otherFile, cleared>>
    /\ UNCHANGED <<runVars, otherStoreVars>>

\* a later session opens the store on the same backing file:
\* LongTermMemory(storage_path)
session_reopen ==
    /\ Bind(storage_path, Disk)
    /\ lastOp' = Op("reopen", <<>>, FALSE)
    /\ UNCHANGED <<appended, attempted, cleared>>
    /\ UNCHANGED <<runVars, otherStoreVars>>

\* a later session starts: initialize_system and initialize_resources open
\* the store with the default constructor, LongTermMemory()
session_start ==
    /\ Bind(MEMORY_PATH, Disk)
    /\ lastOp' = Op("start", <<>>, FALSE)
    /\ UNCHANGED <<appended, attempted, cleared>>
    /\ UNCHANGED <<runVars, otherStoreVars>>

\* the CLI's clear command, confirmed with "yes"
cli_clear ==
    /\ Bind(CliLessonsPath, unlink(Disk, CliLessonsPath))
    /\ lastOp' = Op("clear", <<>>, FALSE)
    /\ appended' = NoLessons
    /\ attempted' = NoLessons
    /\ cleared' = TRUE
    /\ UNCHANGED <<runVars, otherStoreVars>>

\* DELETE /api/lessons: clear_all_lessons
clear_all_lessons ==
    /\ Bind(ApiLessonsPath, unlink(Disk, ApiLessonsPath))
    /\ lastOp' = Op("clear", <<>>, FALSE)
    /\ appended' = NoLessons
    /\ attempted' = NoLessons
    /\ cleared' = TRUE
    /\ UNCHANGED <<runVars, otherStoreVars>>

\* the calls on one store and on the stores later opened on its file
StoreNext == session_get_lessons \/ session_add_lesson \/ session_reopen

StoreSpec == SessionInit /\ [][StoreNext]_vars

\* a CLI session and the sessions after it
CliNext == session_get_lessons \/ session_add_lesson \/ session_start \/ cli_clear

CliSpec == SessionInit /\ [][CliNext]_vars

\* an API process and the processes after it
ApiNext == session_get_lessons \/ session_add_lesson \/ session_start \/ clear_all_lessons

ApiSessionSpec == SessionInit /\ [][ApiNext]_vars

----------------------------------------------------------------------------
(* Two LongTermMemory instances bound to the same file: two processes, or   *)
(* an instance opened earlier and one opened later.                        *)

\* both instances were opened with LongTermMemory() on the same file
TwoStoresInit ==
    /\ Idle
    /\ \E f \in InitialFiles :
          /\ OpenDefault(f)
          /\ data2 = load(f)
    /\ saving = None

\* add_lesson on the second instance
second_add_lesson ==
    /\ lesson_count(data2) < MaxLessons
    /\ attempt_count < MaxLessons
    /\ \E id \in StoreIds, lesson \in StoreLessons, saveRaises \in BOOLEAN :
          LET r == add_lesson(data2, file, id, use_case_names[id], lesson, saveRaises)
          IN  /\ data2' = r.data
              /\ file' = r.file
              /\ lastOp' = Op("add_lesson", id, r.raised)
              /\ attempted' = [attempted EXCEPT ![id] = Append(@, lesson)]
              /\ appended' = IF r.raised THEN appended
                             ELSE [appended EXCEPT ![id] = Append(@, lesson)]
    /\ UNCHANGED <<data, storage_path, otherFile, cleared, saving>>
    /\ UNCHANGED runVars

\* a new instance replaces the second one: LongTermMemory() on the file
second_open ==
    /\ data2' = load(file)
    /\ lastOp' = Op("open", <<>>, FALSE)
    /\ UNCHANGED <<data, file, storage_path, otherFile, appended, attempted, cleared, saving>>
    /\ UNCHANGED runVars

TwoStoresNext == session_add_lesson \/ second_add_lesson \/ second_open

TwoStoresSpec == TwoStoresInit /\ [][TwoStoresNext]_vars

----------------------------------------------------------------------------
(* DesignAgentReAct.run as a function of its input state: the node is      *)
(* invoked once on a state whose fields are drawn from small sets.         *)

\* values of an Optional[str] field: None, "" and a text
OptionalTexts(text) == {None, Some(<<>>), Some(text)}

DesignerInit ==
    /\ pc = "design"
    /\ max_iterations = MaxIter
    /\ \E q \in UserQueries,
          use_case_id \in OptionalTexts(<<"5.1.1">>),
          use_case_name \in OptionalTexts(use_case_names[<<"5.1.1">>]),
          description_summary \in OptionalTexts(<<"summary">>),
          requirement_list \in {None, Some(<<"[PR 1]">>)},
          system_design \in {None, Some(<<"design A">>)} :
          state = [initial_state(q, MaxIter) EXCEPT
                      !.use_case_id = use_case_id,
                      !.use_case_name = use_case_name,
                      !.description_summary = description_summary,
                      !.requirement_list = requirement_list,
                      !.system_design = system_design]
    /\ \E f \in InitialFiles : OpenDefault(f)
    /\ NoOtherStore
    /\ designCalls = 0
    /\ criticCalls = 0
    /\ lessonsCalls = 0
    /\ saveCalls = 0
    /\ stepFailed = FALSE
    /\ lastEval = None
    /\ allRevise = TRUE
    /\ designRaised = None
    /\ designed = FALSE

DesignerSpec == DesignerInit /\ [][design_node]_vars

----------------------------------------------------------------------------
(* One LongTermMemory instance used by two threads of the API process: a   *)
(* run in a background task that is in add_lesson, and another run's       *)
(* Designer or a lessons or health request calling get_lessons.  _save     *)
(* iterates over self._data.items() while it builds raw_data; a dict that  *)
(* gets a new key during the iteration makes the iterator raise            *)
(* RuntimeError.  One thread at a time is in add_lesson.                   *)

\* add_lesson up to the start of _save's loop: get_lessons, append, mkdir
\* and the iterator over self._data.items()
add_lesson_begin ==
    /\ saving = None
    /\ lesson_count(data) < MaxLessons
    /\ attempt_count < MaxLessons
    /\ \E id \in StoreIds, lesson \in StoreLessons :
          /\ data' = append_lesson(data, id, use_case_names[id], lesson)
          /\ saving' = Some([id |-> id, size |-> Cardinality(DOMAIN data')])
          /\ attempted' = [attempted EXCEPT ![id] = Append(@, lesson)]
    /\ UNCHANGED <<file, storage_path, otherFile, lastOp, appended, cleared, data2>>
    /\ UNCHANGED runVars

\* get_lessons in the other thread
other_get_lessons ==
    /\ \E id \in StoreIds :
          /\ data' = get_lessons(data, id, use_case_names[id])
          /\ lastOp' = Op("get_lessons", id, FALSE)
    /\ UNCHANGED <<file, storage_path, otherFile, appended, attempted, cleared>>
    /\ UNCHANGED <<runVars, otherStoreVars>>

\* the rest of _save: the loop ends, or raises because the dict has grown,
\* and the file is written
add_lesson_end ==
    /\ saving # None
    /\ LET id == Val(saving).id
           raised == Cardinality(DOMAIN data) # Val(saving).size
       IN  /\ file' = IF raised THEN file ELSE Some(raw_data(data))
           /\ lastOp' = Op("add_lesson", id, raised)
           /\ appended' = IF raised THEN appended
                          ELSE [appended EXCEPT
                                  ![id] = Append(@, attempted[id][Len(attempted[id])])]
    /\ saving' = None
    /\ UNCHANGED <<data, storage_path, otherFile, attempted, cleared, data2>>
    /\ UNCHANGED runVars

SharedNext == add_lesson_begin \/ other_get_lessons \/ add_lesson_end

SharedStoreSpec == SessionInit /\ [][SharedNext]_vars

----------------------------------------------------------------------------
(* Opening a store on a file that does not load.                           *)

\* a record UseCaseLessons(**lesson_data) rejects: use_case_name is missing
InvalidRecord == [use_case_id |-> <<"5.2.1">>]

\* files whose load fails: after a valid record, and at the first record
CorruptFiles ==
    { Some((<<"5.1.1">> :> [use_case_id |-> <<"5.1.1">>,
                           use_case_name |-> use_case_names[<<"5.1.1">>],
                           lessons |-> <<[lesson |-> <<"O","l","d">>]>>])
           @@ (<<"5.2.1">> :> InvalidRecord)),
      Some(<<"5.2.1">> :> InvalidRecord) }

\* a file that loads although a record has no lessons key
DefaultedFiles ==
    { Some(<<"5.1.1">> :> [use_case_id |-> <<"5.1.1">>,
                          use_case_name |-> use_case_names[<<"5.1.1">>]]) }

OpenInit ==
    /\ Idle
    /\ \E f \in InitialFiles \cup CorruptFiles \cup DefaultedFiles : OpenDefault(f)
    /\ NoOtherStore

OpenSpec == OpenInit /\ [][StoreNext]_vars

----------------------------------------------------------------------------
(* A run of the API with DELETE /api/lessons processed while it is in      *)
(* flight.  run_design_task passed the global `memory` to                  *)
(* run_design_workflow when the run started, and create_workflow gave that *)
(* instance to the agents: data is its map.  clear_all_lessons rebinds the *)
(* global to a new instance: data2 is the new instance's map.              *)

\* clear_all_lessons while the run is between two of its steps
clear_during_run ==
    /\ pc \in {"query", "design", "feedback"}
    /\ ~cleared
    /\ storage_path = ApiLessonsPath
    /\ file' = unlink(Disk, ApiLessonsPath)[ApiLessonsPath]
    /\ data2' = load(file')
    /\ cleared' = TRUE
    /\ lastOp' = Op("clear", <<>>, FALSE)
    /\ appended' = NoLessons
    /\ attempted' = NoLessons
    /\ UNCHANGED <<data, storage_path, otherFile, saving>>
    /\ UNCHANGED runVars

\* what GET /api/lessons returns for a use case once the global is rebound
api_lessons(use_case_id) ==
    lesson_texts(get_lessons(data2, use_case_id, use_case_names[use_case_id]), use_case_id)

ApiRunNext == Next \/ clear_during_run

ApiRunSpec == ApiInit /\ [][ApiRunNext]_vars

----------------------------------------------------------------------------
(* Properties of a run.                                                    *)

\* t occurs in s when letter case is ignored
ContainsIgnoreCase(s, t) ==
    \E i \in 0..(Len(s) - Len(t)) :
        \A j \in 1..Len(t) : UpperChar(s[i + j]) = UpperChar(t[j])

\* the text has the token APPROVED and does not have NEEDS_REVISION
ApprovedOnly(text) ==
    ContainsIgnoreCase(text, APPROVED) /\ ~ContainsIgnoreCase(text, NEEDS_REVISION)

\* C1: with max_iterations = N >= 1, while no step has failed and every
\* evaluation so far parsed as not approved, the run has made at most N
\* Designer and N Critic invocations and it is at END exactly when it has
\* made N Critic invocations; there it has made N Designer invocations and
\* is_approved is true, iteration is N and final_response is set.  Every
\* run reaches END.
C1_Run ==
    (max_iterations >= 1 /\ ~stepFailed /\ allRevise) =>
        /\ criticCalls <= max_iterations
        /\ designCalls <= max_iterations
        /\ (pc = "end" <=> criticCalls = max_iterations)
        /\ pc = "end" =>
              /\ designCalls = max_iterations
              /\ state.is_approved
              /\ state.iteration = max_iterations
              /\ state.final_response # None
C1_BoundedTermination == []C1_Run /\ <>(pc = "end")

C1_Witness ==
    /\ pc = "end" /\ max_iterations = 3 /\ ~stepFailed /\ allRevise
    /\ criticCalls = 3 /\ state.final_response # None

\* C2 (as claimed): whatever the steps' outcomes, a run that is not at END
\* can take a step, and a run that is at END made at most max_iterations
\* Designer/Critic round trips.
C2_RoundTripsAtMostMax ==
    /\ pc = "end" \/ ENABLED Next
    /\ pc = "end" => criticCalls <= max_iterations

\* C3 (as claimed): when the first evaluation has APPROVED and not
\* NEEDS_REVISION and max_iterations >= 1, the run is at END after one
\* Designer and one Critic invocation with iteration 1, is_approved true and
\* final_response set.
C3_FirstApproved ==
    /\ criticCalls = 1
    /\ lastEval # None
    /\ ApprovedOnly(Val(lastEval))
    /\ max_iterations >= 1
C3_Original ==
    C3_FirstApproved =>
        /\ pc = "end" /\ designCalls = 1
        /\ state.iteration = 1 /\ state.is_approved /\ state.final_response # None

\* C3 (amended): when the first evaluation has APPROVED and not
\* NEEDS_REVISION and max_iterations >= 1, the run is at END after one
\* Designer and one Critic invocation; if that Critic invocation did not
\* fail then iteration is 1, is_approved is true and final_response is set,
\* and if it failed then error is set, iteration is 0, is_approved is false
\* and final_response is null.
C3_EarlyApproval ==
    C3_FirstApproved =>
        /\ pc = "end" /\ designCalls = 1
        /\ ~Truthy(state.error) =>
              state.iteration = 1 /\ state.is_approved /\ state.final_response # None
        /\ Truthy(state.error) =>
              state.iteration = 0 /\ ~state.is_approved /\ state.final_response = None

C3_Witness ==
    /\ C3_FirstApproved /\ max_iterations = 3 /\ pc = "end"
    /\ state.error = None /\ state.iteration = 1

\* C4: the verdict the Critic parsed from an evaluation text (which a
\* finalizing invocation reports as the first line of final_response, and a
\* non-finalizing one by not finalizing) is approved exactly when the text,
\* letter case ignored, has APPROVED and does not have NEEDS_REVISION.
C4_VerdictParse ==
    (criticCalls >= 1 /\ lastEval # None /\ ~Truthy(state.error)) =>
        IF state.final_response # None
        THEN (Head(Val(state.final_response)) = "Design APPROVED")
                 <=> ApprovedOnly(Val(lastEval))
        ELSE ~ApprovedOnly(Val(lastEval))

\* an evaluation with both tokens, in mixed case, was parsed as not approved
C4_Witness ==
    /\ lastEval # None
    /\ ContainsIgnoreCase(Val(lastEval), APPROVED)
    /\ ContainsIgnoreCase(Val(lastEval), NEEDS_REVISION)
    /\ ~Contains(Val(lastEval), NEEDS_REVISION)
    /\ state.final_response # None
    /\ Head(Val(state.final_response)) # "Design APPROVED"

\* C5 (as claimed): the Critic is never invoked on a state in which the
\* Designer reported an error, nor with a null system_design or
\* requirement_list.
C5_CriticInputsPresent ==
    pc = "feedback" =>
        /\ ~Truthy(state.error)
        /\ state.system_design # None
        /\ state.requirement_list # None

\* C6 (as claimed): when a Designer generation raised an exception with
\* message M, the error of the terminal state contains M.
C6_DesignerErrorSurvives ==
    (pc = "end" /\ designRaised # None) =>
        /\ state.error # None
        /\ Contains(Val(state.error), Val(designRaised))

\* C7: when the Classifier returns with error set or without a use_case_id
\* the graph goes to END in that step, with the store as it was, no Designer
\* or Critic invocation, system_design null, iteration 0 and error set; and
\* nothing runs after END.
C7_ClassifierStep ==
    (pc = "query" /\ (Truthy(state'.error) \/ ~Truthy(state'.use_case_id))) =>
        /\ pc' = "end"
        /\ data' = data /\ file' = file
        /\ designCalls' = 0 /\ criticCalls' = 0 /\ saveCalls' = 0
        /\ state'.system_design = None
        /\ state'.iteration = 0
        /\ state'.error # None
C7_ClassificationFailureEnds ==
    [][C7_ClassifierStep /\ pc # "end"]_vars

\* the Classifier resolved the id, retrieval found nothing, the run ended
C7_Witness ==
    /\ pc = "end" /\ designCalls = 0 /\ criticCalls = 0
    /\ Truthy(state.error) /\ Truthy(state.use_case_id)

\* C8: a Critic invocation that does not fail, on iteration i with budget
\* max_iterations, finalizes (extracts lessons) exactly when the verdict is
\* approved or i + 1 >= max_iterations; if it finalizes the returned state
\* has is_approved true and final_response set; otherwise is_approved is
\* false, final_response is null and the graph goes back to the Designer.
C8_CriticStep ==
    (pc = "feedback" /\ ~Truthy(state'.error)) =>
        LET finalizing == \/ parse_verdict(Val(lastEval'))
                          \/ state.iteration + 1 >= state.max_iterations
        IN  /\ (lessonsCalls' = lessonsCalls + 1) <=> finalizing
            /\ lessonsCalls' = lessonsCalls \/ lessonsCalls' = lessonsCalls + 1
            /\ finalizing => state'.is_approved /\ state'.final_response # None
            /\ ~finalizing =>
                  /\ ~state'.is_approved
                  /\ state'.final_response = None
                  /\ pc' = "design"
C8_FinalizationRule == [][C8_CriticStep]_vars

\* the budget, not the verdict, made the Critic finalize
C8_Witness ==
    /\ criticCalls = 2 /\ max_iterations = 2
    /\ lastEval # None /\ ~parse_verdict(Val(lastEval))
    /\ state.is_approved /\ state.final_response # None /\ state.error = None

\* C9 (as claimed): iteration equals the number of Critic invocations made.
C9_IterationCountsCritic ==
    state.iteration = criticCalls

\* C10 (as claimed): 0 <= iteration <= max_iterations in every state.
C10_IterationInRange ==
    0 <= state.iteration /\ state.iteration <= state.max_iterations

\* C11: in every state of a run, a non-null final_response comes with
\* is_approved true or with an error.
C11_FinalResponseImpliesApproved ==
    state.final_response # None =>
        (state.is_approved \/ state.error # None)

\* the Critic approved the first design and wrote the final response
C11_Witness ==
    /\ pc = "end" /\ criticCalls = 1
    /\ lastEval # None /\ parse_verdict(Val(lastEval))
    /\ state.final_response # None /\ state.is_approved

----------------------------------------------------------------------------
(* Properties of the store.                                                *)

\* s is t with zero or more elements left out
RECURSIVE IsSubSeq(_, _)
IsSubSeq(s, t) ==
    IF s = <<>> THEN TRUE
    ELSE IF t = <<>> THEN FALSE
    ELSE IF Head(s) = Head(t) THEN IsSubSeq(Tail(s), Tail(t))
    ELSE IsSubSeq(s, Tail(t))

\* what get_lessons returns for a use case, as lesson texts
received(use_case_id) ==
    lesson_texts(get_lessons(data, use_case_id, use_case_names[use_case_id]), use_case_id)

\* C12: on a store instance and on every store later re-opened from its
\* backing file, get_lessons returns for each use case all lessons appended
\* so far, in order; and after each add_lesson that returns, loading the
\* file yields the same use-case ids, with the same use_case_id,
\* use_case_name and lesson texts, as the in-memory map.
C12_PersistenceRoundTrip ==
    /\ \A id \in StoreIds : IsSubSeq(appended[id], received(id))
    /\ (lastOp.op = "add_lesson" /\ ~lastOp.raised) =>
          /\ DOMAIN load(file) = DOMAIN data
          /\ \A id \in DOMAIN data :
                /\ load(file)[id].use_case_id = data[id].use_case_id
                /\ load(file)[id].use_case_name = data[id].use_case_name
                /\ lesson_texts(load(file), id) = lesson_texts(data, id)

\* a store re-opened after two lessons were added for one use case and an
\* empty entry was created for the other
C12_Witness ==
    /\ lastOp.op = "reopen"
    /\ received(<<"5.1.1">>) = <<<<"O","l","d">>, <<"A">>, <<"B">>>>
    /\ appended[<<"5.1.1">>] = <<<<"O","l","d">>, <<"A">>, <<"B">>>>
    /\ <<"5.2.1">> \in DOMAIN data
    /\ data[<<"5.2.1">>].lessons = <<>>

\* C13: add_lesson for use case A leaves what get_lessons returns for every
\* other use case B as it was, and the lessons returned for a use case are
\* among those passed to add_lesson for that use case, in that order.
C13_AddStep ==
    lastOp'.op = "add_lesson" =>
        \A B \in StoreIds \ {lastOp'.id} :
            /\ lesson_texts(get_lessons(data', B, use_case_names[B]), B) = received(B)
            /\ B \in DOMAIN data => (B \in DOMAIN data' /\ data'[B] = data[B])
C13_Isolation ==
    /\ [][C13_AddStep]_vars
    /\ [](\A id \in StoreIds : IsSubSeq(received(id), attempted[id]))

\* a lesson was added for 5.2.1 while 5.1.1 held another one
C13_Witness ==
    /\ lastOp.op = "add_lesson" /\ lastOp.id = <<"5.2.1">>
    /\ received(<<"5.2.1">>) = <<<<"B">>>>
    /\ received(<<"5.1.1">>) = <<<<"O","l","d">>>>

\* C14 (as claimed): get_lessons called twice for an id with no prior writes
\* returns two empty, equal records, and a read has no side effect: the set
\* of use-case entries the store holds and the content a later persist
\* writes are what they were before the read.
C14_ReadStepNoEffect ==
    lastOp'.op = "get_lessons" =>
        LET id == lastOp'.id
            name == use_case_names[id]
        IN  /\ id \notin DOMAIN data =>
                  /\ data'[id].lessons = <<>>
                  /\ get_lessons(data', id, name)[id] = data'[id]
            /\ DOMAIN data' = DOMAIN data
            /\ raw_data(data') = raw_data(data)
C14_ReadsHaveNoSideEffect == [][C14_ReadStepNoEffect]_vars

\* C14 (amended): get_lessons called twice for an id with no prior writes
\* returns the same empty record both times; the first call adds that empty
\* entry to the store, so a later persist writes it, and changes nothing
\* else: every other entry, every lesson sequence and the file stay as they
\* were, and a read of an id the store holds changes nothing at all.
C14_ReadStep ==
    lastOp'.op = "get_lessons" =>
        LET id == lastOp'.id
            name == use_case_names[id]
        IN  /\ file' = file
            /\ DOMAIN data' = DOMAIN data \cup {id}
            /\ \A k \in DOMAIN data : data'[k] = data[k]
            /\ id \notin DOMAIN data =>
                  /\ data'[id] = [use_case_id |-> id, use_case_name |-> name,
                                  lessons |-> <<>>]
                  /\ id \in DOMAIN raw_data(data')
                  /\ raw_data(data')[id].lessons = <<>>
            /\ get_lessons(data', id, name) = data'
C14_ReadAddsEmptyEntry == [][C14_ReadStep]_vars

\* the empty entry a read created for 5.2.1 was written by the persist of a
\* lesson for 5.1.1
C14_Witness ==
    /\ lastOp.op = "add_lesson" /\ lastOp.id = <<"5.1.1">> /\ ~lastOp.raised
    /\ attempted[<<"5.2.1">>] = <<>>
    /\ file # None
    /\ <<"5.2.1">> \in DOMAIN Val(file)
    /\ Val(file)[<<"5.2.1">>].lessons = <<>>

\* C15: over the get_lessons and add_lesson calls on a store instance the
\* lessons of a use case only grow at the end: add_lesson for a use case
\* extends its sequence by exactly the lesson passed, also when the sequence
\* already holds an equal text, and every other call and every other use
\* case's sequence is left as it was.
C15_CallStep ==
    lastOp'.op \in {"get_lessons", "add_lesson"} =>
        \A id \in StoreIds :
            IF lastOp'.op = "add_lesson" /\ lastOp'.id = id
            THEN lesson_texts(data', id) =
                    Append(lesson_texts(data, id),
                           attempted'[id][Len(attempted'[id])])
            ELSE lesson_texts(data', id) = lesson_texts(data, id)
C15_AppendOnly == [][C15_CallStep]_vars

\* the same text was added twice and is held twice
C15_Witness ==
    /\ lastOp.op = "add_lesson" /\ lastOp.id = <<"5.2.1">>
    /\ lesson_texts(data, <<"5.2.1">>) = <<<<"A">>, <<"A">>>>

\* C16 (as claimed): once a clear has completed, the store bound to `memory`
\* holds no lessons right after it, every store in use afterwards, in this
\* session or opened with the default constructor in a later one, returns
\* only lessons added after the clear, and a later session sees all of the
\* lessons added after the clear.
C16_ClearedLessonsStayGone ==
    cleared =>
        /\ lastOp.op = "clear" => \A id \in DOMAIN data : data[id].lessons = <<>>
        /\ \A id \in StoreIds : IsSubSeq(received(id), attempted[id])
        /\ lastOp.op = "start" => \A id \in StoreIds : IsSubSeq(appended[id], received(id))

----------------------------------------------------------------------------
(* Properties of finalization.                                             *)

\* the characters the claim names: digits, '.', '-', ')' and space
C17_Markers == {"0","1","2","3","4","5","6","7","8","9",".","-",")"," "}

\* s without its leading and trailing whitespace
C17_Trimmed(s) ==
    LET inked == {i \in 1..Len(s) : s[i] \notin Whitespace}
    IN  IF inked = {} THEN <<>>
        ELSE SubSeq(s, CHOOSE i \in inked : \A j \in inked : i <= j,
                       CHOOSE i \in inked : \A j \in inked : i >= j)

\* s from its first character that is not a marker
C17_Unnumbered(s) ==
    LET rest == {i \in 1..Len(s) : s[i] \notin C17_Markers}
    IN  IF rest = {} THEN <<>>
        ELSE SubSeq(s, CHOOSE i \in rest : \A j \in rest : i <= j, Len(s))

\* the lessons a lesson-extraction text stands for: per line, the trimmed
\* line without its leading markers, trimmed; the empty ones left out
C17_Lessons(text) ==
    LET lines == Split(text, "\n")
        cleaned == [i \in 1..Len(lines) |->
                       C17_Trimmed(C17_Unnumbered(C17_Trimmed(lines[i])))]
    IN  SelectSeq(cleaned, LAMBDA l : l # <<>>)

C18_LessonsChange ==
    \/ file' # file
    \/ saveCalls' # saveCalls
    \/ \E id \in DOMAIN use_case_names : lesson_texts(data', id) # lesson_texts(data, id)
C18_Step ==
    /\ C18_LessonsChange => (pc = "feedback" /\ lessonsCalls' = lessonsCalls + 1)
    /\ lessonsCalls' # lessonsCalls =>
          (pc = "feedback" /\ lessonsCalls = 0 /\ lessonsCalls' = 1 /\ pc' = "end")
C18_WritesOnlyAtFinalization == [][C18_Step]_vars

\* the Designer read the lessons of a use case the store did not hold and
\* the Critic asked for a revision: the entry exists in memory, no lesson was
\* added and no file was written
C18_Witness ==
    /\ pc = "design" /\ criticCalls = 1 /\ lessonsCalls = 0 /\ saveCalls = 0
    /\ file = None
    /\ state.use_case_id # None
    /\ Val(state.use_case_id) \in DOMAIN data
    /\ data[Val(state.use_case_id)].lessons = <<>>

\* C19: the Classifier's two failures can be told apart.  When the id is not
\* resolved the returned state has error set and use_case_id and
\* use_case_name null; when the id is resolved and the description or the
\* requirement search returns no chunk it has error set and use_case_id and
\* use_case_name populated.  In both description_summary is null and the
\* graph goes to END.
C19_ClassifierFailureKinds ==
    pc = "query" =>
        \A identified \in Outcomes(IdentifiedIds),
           description_chunks \in Outcomes(DescriptionChunks),
           requirement_chunks \in Outcomes(RequirementChunks),
           summary \in Outcomes(Summaries) :
            LET r == QueryAnalysisAgent_run(state, identified, description_chunks,
                                            requirement_chunks, summary)
                unresolved == identified.ok /\ identified.v = None
                resolved == identified.ok /\ identified.v # None
                gap == /\ resolved
                       /\ description_chunks.ok
                       /\ \/ description_chunks.v = <<>>
                          \/ requirement_chunks.ok /\ requirement_chunks.v = <<>>
            IN  /\ unresolved =>
                      /\ r.error # None
                      /\ r.use_case_id = None /\ r.use_case_name = None
                      /\ r.description_summary = None
                      /\ route_after_query(r) = "end"
                /\ gap =>
                      /\ r.error # None
                      /\ r.use_case_id = identified.v
                      /\ r.use_case_name # None
                      /\ r.description_summary = None
                      /\ route_after_query(r) = "end"

\* a run ended by a retrieval gap for a resolved use case
C19_Witness ==
    /\ pc = "end" /\ designCalls = 0
    /\ state.use_case_id = Some(<<"5.2.1">>)
    /\ state.use_case_name = Some(use_case_names[<<"5.2.1">>])
    /\ state.error = Some(<<"No requirement found for use case ">> \o <<"5.2.1">>)
    /\ state.description_summary = None

\* C20 (as claimed): when some Designer invocation of the run produced a
\* design and the run ends without a final response, the terminal state has
\* a non-null system_design.
C20_PartialDesignKept ==
    (pc = "end" /\ designed /\ state.final_response = None) =>
        state.system_design # None

----------------------------------------------------------------------------
(* Properties of stores that share a file or a thread.                     *)

\* C21 (as claimed): whichever instance bound to the file makes it, an
\* add_lesson call that returns leaves in the file every lesson the file
\* held before the call, in order, and the lesson it added, at the end of
\* its use case's lessons.
C21_AddStep ==
    (lastOp'.op = "add_lesson" /\ ~lastOp'.raised) =>
        /\ \A id \in StoreIds :
              IsSubSeq(lesson_texts(load(file), id), lesson_texts(load(file'), id))
        /\ LET id == lastOp'.id
               after == lesson_texts(load(file'), id)
           IN  /\ after # <<>>
               /\ after[Len(after)] = attempted'[id][Len(attempted'[id])]
C21_AddKeepsPersistedLessons == [][C21_AddStep]_vars

----------------------------------------------------------------------------
(* Properties of the Designer and of the state the steps hand on.          *)

\* C22 (as claimed): on an input state in which use_case_id, use_case_name
\* or description_summary is null or empty, the Designer returns a state
\* with error set and system_design null, leaves the store as it was and
\* returns the same whatever a generation request would have produced.
C22_DesignerRequiresInputs ==
    (/\ pc = "design"
     /\ \/ ~Truthy(state.use_case_id)
        \/ ~Truthy(state.use_case_name)
        \/ ~Truthy(state.description_summary)) =>
        \A agent_result \in Outcomes(AgentResults) :
            LET r == DesignAgentReAct_run(state, data, agent_result)
            IN  /\ r.state.error # None
                /\ r.state.system_design = None
                /\ r.data = data
                /\ \A other \in Outcomes(AgentResults) :
                      DesignAgentReAct_run(state, data, other) = r

\* C23: no Designer or Critic invocation changes user_query, use_case_id,
\* use_case_name, description_summary, requirement_list or max_iterations,
\* whether it succeeds or returns an error.
C23_Step ==
    pc \in {"design", "feedback"} =>
        /\ state'.user_query = state.user_query
        /\ state'.use_case_id = state.use_case_id
        /\ state'.use_case_name = state.use_case_name
        /\ state'.description_summary = state.description_summary
        /\ state'.requirement_list = state.requirement_list
        /\ state'.max_iterations = state.max_iterations
C23_ClassifierFieldsKept == [][C23_Step]_vars

\* a run that ended with an error after two Designer invocations still has
\* the Classifier's fields
C23_Witness ==
    /\ pc = "end" /\ designCalls = 2 /\ state.error # None
    /\ state.use_case_id = Some(<<"5.1.1">>)
    /\ state.description_summary = Some(<<"summary">>)
    /\ Truthy(state.requirement_list)
    /\ state.max_iterations = max_iterations

\* C24: the Classifier runs once, first; after it Designer and Critic
\* invocations alternate, starting with the Designer, each Critic invocation
\* running on the state the Designer before it returned.  The first Designer
\* invocation finds no feedback in the state; every later one finds the
\* evaluation text of the Critic invocation before it, and puts that text in
\* its request unless the text is empty.
C24_Order ==
    /\ pc = "query" => (designCalls = 0 /\ criticCalls = 0)
    /\ pc \in {"design", "end"} => designCalls = criticCalls
    /\ pc = "feedback" => designCalls = criticCalls + 1
    /\ (pc = "design" /\ designCalls = 0) =>
          /\ state.feedback = None
          /\ designer_feedback(state) =
                <<"No feedback yet - this is the first design iteration.">>
    /\ (pc = "design" /\ designCalls >= 1) =>
          /\ lastEval # None
          /\ state.feedback = lastEval
          /\ Val(lastEval) # <<>> => designer_feedback(state) = Val(lastEval)
C24_Step ==
    /\ pc' # "query"
    /\ pc = "query" => pc' \in {"design", "end"}
    /\ pc = "design" => (pc' = "feedback" /\ designCalls' = designCalls + 1
                         /\ criticCalls' = criticCalls)
    /\ pc = "feedback" => (pc' \in {"design", "end"} /\ criticCalls' = criticCalls + 1
                           /\ designCalls' = designCalls)
C24_InvocationOrder == []C24_Order /\ [][C24_Step]_vars

\* the third Designer invocation is about to run on the second Critic
\* invocation's evaluation
C24_Witness ==
    /\ pc = "design" /\ designCalls = 2 /\ criticCalls = 2
    /\ lastEval # None /\ Val(lastEval) # <<>>
    /\ state.feedback = lastEval

\* the research lookups of an agent result: the calls of the research tool
C25_Lookups(msgs) ==
    {c \in UNION {{m.tool_calls[i] : i \in 1..Len(m.tool_calls)} :
                     m \in {msgs[j] : j \in 1..Len(msgs)}} : c.name = "research"}

\* the summarized results the research tool returned for a lookup
C25_Results(msgs, c) ==
    {m.content : m \in {msgs[j] : j \in 1..Len(msgs)} \cap
                       {x \in {msgs[j] : j \in 1..Len(msgs)} :
                           x.type = "tool" /\ x.tool_call_id = c.id}}

\* C25 (as claimed): when the agent made at least one research lookup, the
\* system_design the Designer returns begins with a "Research Conducted"
\* block that holds every lookup query and the summarized result of every
\* lookup, followed by the design text; when it made none, system_design is
\* the design text with no such block.
C25_ResearchBlock ==
    pc = "design" =>
        \A msgs \in AgentResults :
            LET r == DesignAgentReAct_run(state, data, Return(msgs))
                design == Val(r.state.system_design)
                text == last_ai_content(msgs)
                header == "## Research Conducted\nThe agent researched the following topics:\n"
            IN  r.state.error = None =>
                    IF C25_Lookups(msgs) # {}
                    THEN /\ design # <<>> /\ Head(design) = header
                         /\ \A c \in C25_Lookups(msgs) :
                               /\ Contains(design, c.query)
                               /\ \A summary \in C25_Results(msgs, c) :
                                     Contains(design, summary)
                         /\ SubSeq(design, Len(design) - Len(text) + 1, Len(design)) = text
                    ELSE design = text

----------------------------------------------------------------------------
(* Properties of finalization and of the terminal state.                   *)

\* C26 (as claimed): a Critic invocation that returns a state with error
\* set appended no lesson, neither to the store's map nor to the file;
\* lessons are added only by an invocation that returns a final_response.
C26_CriticStep ==
    (pc = "feedback" /\ (state'.error # None \/ state'.final_response = None)) =>
        /\ \A id \in DOMAIN use_case_names :
              lesson_texts(data', id) = lesson_texts(data, id)
        /\ file' = file
C26_FinalizationAllOrNothing == [][C26_CriticStep]_vars

\* C27: the state of a run at END has exactly one of error and
\* final_response non-null, and in every state of a run is_approved is true
\* exactly when final_response is non-null.
C27_ExactlyOneOutcome ==
    /\ pc = "end" => ((state.error # None) # (state.final_response # None))
    /\ state.is_approved <=> state.final_response # None

\* a run that ended with a final response after a revision, and no error
C27_Witness ==
    /\ pc = "end" /\ criticCalls = 2
    /\ state.error = None
    /\ state.final_response # None /\ state.is_approved

\* C28 (as claimed): when the steps of two users of one store instance
\* interleave, no add_lesson fails, whatever get_lessons calls the other
\* user makes meanwhile, and once no add_lesson is in progress the store
\* holds, per use case, the lessons passed to add_lesson, in order.
C28_InterleavingIsHarmless ==
    /\ lastOp.op = "add_lesson" => ~lastOp.raised
    /\ saving = None =>
          \A id \in StoreIds : IsSubSeq(attempted[id], received(id))

\* the last n elements of s
LastN(s, n) == SubSeq(s, Len(s) - n + 1, Len(s))

\* C29 (as claimed): when DELETE /api/lessons was processed during a run
\* that later finalized, the file holds nothing but lessons that run
\* appended, and the lessons of a run that returned a final response are
\* returned by GET /api/lessons.
C29_ClearDuringRun ==
    (cleared /\ pc = "end" /\ lessonsCalls = 1) =>
        LET id == Val(state.use_case_id)
            mine == LastN(lesson_texts(data, id), saveCalls)
        IN  /\ \A k \in DOMAIN use_case_names :
                  IsSubSeq(lesson_texts(load(file), k), IF k = id THEN mine ELSE <<>>)
            /\ state.final_response # None => IsSubSeq(mine, api_lessons(id))

----------------------------------------------------------------------------
(* Properties of opening a store.                                          *)

\* the file exists and its load fails at some record
LoadFails(f) == f # None /\ \E k \in DOMAIN Val(f) : ~valid_record(Val(f)[k])

\* a store was just opened
JustOpened == lastOp.op \in {"open", "reopen"}

C30_Opened ==
    /\ JustOpened /\ (file = None \/ LoadFails(file)) => data = EmptyMap
    /\ JustOpened /\ file # None /\ ~LoadFails(file) => DOMAIN data = DOMAIN Val(file)
    /\ \A id \in DOMAIN use_case_names :
          /\ IsSubSeq(lesson_texts(data, id), attempted[id])
          /\ IsSubSeq(lesson_texts(load(file), id), attempted[id])

C30_Step ==
    /\ lastOp'.op = "reopen" => file' = file /\ ~lastOp'.raised
    /\ (lastOp'.op = "add_lesson" /\ ~lastOp'.raised) => file' = Some(raw_data(data'))
    /\ (lastOp'.op = "add_lesson" /\ lastOp'.raised) => file' = file

\* C30: opening a store does not raise and never yields a part of the file:
\* on an absent file, and on a file whose load fails at any record, the
\* store has no entries, and otherwise it has every entry of the file; the
\* load leaves the file as it was; the store and the file hold no lesson
\* that was not in the loaded map or appended since, so the add_lesson
\* after a failed load, which writes the file from the store's map, writes
\* only entries created since the opening.
C30_OpenIsAllOrNothing == []C30_Opened /\ [][C30_Step]_vars

\* a store re-opened on a file that still does not load, after an
\* add_lesson whose persist failed: the store is empty again
C30_Witness ==
    /\ lastOp.op = "reopen"
    /\ LoadFails(file)
    /\ <<"5.1.1">> \in DOMAIN Val(file)
    /\ data = EmptyMap
    /\ \E id \in StoreIds : attempted[id] # <<>>

====
